---- MODULE Spec2Model ----
(***************************************************************************)
(* Model of DetachedScrollbar (src/src/detached-scrollbar.ts): one scroll  *)
(* ratio driven by pointer drag, keyboard, track click, debounced resize   *)
(* and the programmatic API, applied to the thumb and content styles.      *)
(*                                                                         *)
(* Numbers are JavaScript numbers without rounding error: a pair <<n, d>>  *)
(* is the rational n/d in lowest terms when d > 0; <<1, 0>> is +Infinity,  *)
(* <<-1, 0>> is -Infinity and <<0, 0>> is NaN.  The sign of zero is not    *)
(* tracked: every divisor the code forms is a difference or an extent, so  *)
(* a zero divisor is +0, and -0 prints as "0" in every string written.     *)
(***************************************************************************)
EXTENDS Integers, FiniteSets, Sequences, TLC

\* ---------------------------------------------------------------- bounds
\* option resizeDebounce, in clock ticks
resizeDebounce == 2
\* option keyboardSteps
keyboardSteps == 4
\* number of content elements driven by the scrollbar
NumContent == 2
\* pointer coordinates along the active axis are 0..MaxPointer
MaxPointer == 1
\* handles the host hands out for timers; a handle is free again once its
\* timer has run or was cleared
MaxTimerId == 2

\* ------------------------------------------------------------ arithmetic
NaN == <<0, 0>>
PosInf == <<1, 0>>
NegInf == <<-1, 0>>

Abs(i) == IF i < 0 THEN -i ELSE i

Sign(i) == IF i < 0 THEN -1 ELSE IF i > 0 THEN 1 ELSE 0

RECURSIVE GCD(_, _)
GCD(a, b) == IF b = 0 THEN a ELSE GCD(b, a % b)

\* the number n/d for integers n and d # 0
Frac(n, d) ==
    LET g == GCD(Abs(n), Abs(d))
        s == IF d < 0 THEN -1 ELSE 1
    IN  <<(s * n) \div g, (s * d) \div g>>

Num(i) == <<i, 1>>

IsNaN(x) == x = NaN

IsFinite(x) == x[2] # 0

\* JavaScript a < b : false as soon as one side is NaN
Lt(a, b) ==
    IF IsNaN(a) \/ IsNaN(b) THEN FALSE
    ELSE IF a = b THEN FALSE
    ELSE IF a = NegInf \/ b = PosInf THEN TRUE
    ELSE IF a = PosInf \/ b = NegInf THEN FALSE
    ELSE a[1] * b[2] < b[1] * a[2]

Le(a, b) == ~IsNaN(a) /\ ~IsNaN(b) /\ (a = b \/ Lt(a, b))

Neg(a) == <<-a[1], a[2]>>

Add(a, b) ==
    IF IsNaN(a) \/ IsNaN(b) THEN NaN
    ELSE IF ~IsFinite(a) /\ ~IsFinite(b) THEN (IF a = b THEN a ELSE NaN)
    ELSE IF ~IsFinite(a) THEN a
    ELSE IF ~IsFinite(b) THEN b
    ELSE Frac(a[1] * b[2] + b[1] * a[2], a[2] * b[2])

Sub(a, b) == Add(a, Neg(b))

Mul(a, b) ==
    IF IsNaN(a) \/ IsNaN(b) THEN NaN
    ELSE IF IsFinite(a) /\ IsFinite(b) THEN Frac(a[1] * b[1], a[2] * b[2])
    ELSE IF a[1] = 0 \/ b[1] = 0 THEN NaN
    ELSE <<Sign(a[1]) * Sign(b[1]), 0>>

\* JavaScript a / b ; a zero divisor is +0 (see the module comment)
Div(a, b) ==
    IF IsNaN(a) \/ IsNaN(b) THEN NaN
    ELSE IF ~IsFinite(a) /\ ~IsFinite(b) THEN NaN
    ELSE IF ~IsFinite(b) THEN Num(0)
    ELSE IF ~IsFinite(a) THEN <<a[1] * (IF b[1] < 0 THEN -1 ELSE 1), 0>>
    ELSE IF b[1] = 0 THEN <<Sign(a[1]), 0>>
    ELSE Frac(a[1] * b[2], a[2] * b[1])

\* Math.min(a, b)
Min(a, b) == IF IsNaN(a) \/ IsNaN(b) THEN NaN ELSE IF Lt(b, a) THEN b ELSE a

\* Math.round(a) : nearest integer, halves toward +Infinity
Round(a) == IF ~IsFinite(a) THEN a ELSE Num((2 * a[1] + a[2]) \div (2 * a[2]))

\* ------------------------------------------------------------ input sets
\* the options an instance is constructed with, as <<direction, trackClick,
\* autoResize>>: the defaults, and the other axis with both optional
\* listeners switched off
Configs == {<<"horizontal", TRUE, TRUE>>, <<"vertical", FALSE, FALSE>>}

\* the layouts the host reports, as <<track, viewport, content>> extents:
\* content overflowing the viewport, content filling it exactly, and a track
\* of no extent with content smaller than the viewport
Geometries == {<<4, 2, 4>>, <<4, 2, 2>>, <<0, 4, 2>>}

\* arguments of scrollTo
ScrollInputs == {NegInf, Frac(1, 2), Num(2)}

\* arguments of scrollToOffset
Offsets == {0, 1, 2, 4}

Pointers == 0 .. MaxPointer

\* click coordinates, relative to the track's origin
ClickPositions == {0, 1}

Keys == {"ArrowLeft", "ArrowRight", "ArrowUp", "ArrowDown", "Home", "End", "a"}

PointerKinds == {"mouse", "touch"}

TimerIds == 1 .. MaxTimerId

\* ------------------------------------------------------------------ state
VARIABLES
    direction,      \* option direction
    trackClick,     \* option trackClick
    autoResize,     \* option autoResize
    _ratio,
    _dragStep,
    _lastPointer,
    _isDragging,
    _resizeTimer,   \* 0 stands for null, otherwise a timer handle
    _destroyed,
    listeners,      \* the (target, type) pairs a handler is registered for
    trackExt,       \* track.offsetWidth / offsetHeight
    thumbExt,       \* thumb.offsetWidth / offsetHeight
    viewportExt,    \* viewport.offsetWidth / offsetHeight
    contentExt,     \* contentEls[0].scrollWidth / scrollHeight
    thumbOffset,    \* thumb.offsetLeft / offsetTop
    thumbSizeStyle, \* thumb.style.width / height as last written
    thumbPosStyle,  \* thumb.style.left / top as last written
    contentPosStyle,\* el.style.left / top as last written, per content element
    ariaValueNow,   \* attribute aria-valuenow as last written
    pressed,        \* pointers whose press handleDown handled and that are still down
    timers,         \* pending host timers: handle -> ticks left
    sinceResize,    \* ticks since handleResize last ran, -1 before the first
    burstFires,     \* re-measurements fired since the current burst began
    last            \* what the latest step did

config == <<direction, trackClick, autoResize>>

fields == <<_ratio, _dragStep, _lastPointer, _isDragging, _resizeTimer, _destroyed>>

geometry == <<trackExt, viewportExt, contentExt>>

thumbBox == <<thumbExt, thumbOffset>>

output == <<thumbSizeStyle, thumbPosStyle, contentPosStyle, ariaValueNow>>

host == <<pressed>>

clock == <<timers, sinceResize, burstFires>>

vars == <<config, fields, listeners, geometry, thumbBox, output, host, clock, last>>

\* ---------------------------------------------------- measurement helpers
isHorizontal == direction = "horizontal"

trackSize == Num(trackExt)

thumbSize == Num(thumbExt)

viewportSize == Num(viewportExt)

contentSize == Num(contentExt)

currentThumbPos == Num(thumbOffset)

\* the four listeners handleDown adds on the document
DragListeners ==
    {"document.mousemove", "document.touchmove", "document.mouseup", "document.touchend"}

\* the three listeners init adds on the thumb
ThumbListeners == {"thumb.mousedown", "thumb.touchstart", "thumb.keydown"}

\* ------------------------------------------------------- the step record
\* what a step did: the operation and its argument, whether a handler of the
\* instance ran, whether it read geometry, wrote a style or attribute, how
\* often it called each observer, how many removeEventListener and
\* clearTimeout calls it made, how many pending timers those cancelled,
\* whether it prevented the event's default, and, for an arrow key, how many
\* presses of that key in a row it completes, counted from the end of the
\* range the key moves away from (0 when the row did not start there)
Quiet(op, arg) ==
    [op |-> op, arg |-> arg, ran |-> FALSE, wasDestroyed |-> _destroyed,
     reads |-> FALSE, writes |-> FALSE, onScroll |-> 0, dragStart |-> 0,
     dragEnd |-> 0, removals |-> 0, clears |-> 0, cancelled |-> 0,
     prevented |-> FALSE, run |-> 0]

\* a step that went through applyPosition
Applied(op, arg, prevented) ==
    [Quiet(op, arg) EXCEPT !.ran = TRUE, !.reads = TRUE, !.writes = TRUE,
                           !.onScroll = 1, !.prevented = prevented]

\* the box the host lays out for a pixel length written to a style: a finite
\* length is honoured, rounded to a whole pixel; "NaNpx" and "Infinitypx" are
\* not valid values and leave the box as it was
Honoured(len, old) == IF IsFinite(len) THEN Round(len)[1] ELSE old

\* ---------------------------------------------------------- thumb sizing
\* sizeThumb leaving the step size as it was
sizeThumbKeepsStep ==
    LET visible == Div(viewportSize, contentSize)
        size == Mul(trackSize, Min(visible, Num(1)))
    IN  /\ thumbSizeStyle' = size
        /\ thumbExt' = IF Lt(size, Num(0)) THEN thumbExt ELSE Honoured(size, thumbExt)
        /\ _dragStep' = _dragStep

sizeThumb ==
    LET visible == Div(viewportSize, contentSize)
        size == Mul(trackSize, Min(visible, Num(1)))
    IN  /\ thumbSizeStyle' = size
        /\ thumbExt' = IF Lt(size, Num(0)) THEN thumbExt ELSE Honoured(size, thumbExt)
        /\ _dragStep' = Div(trackSize, Num(keyboardSteps))

\* applyPosition moving the first content element only
applyPositionFirstOnly ==
    LET thumbPos == Mul(_ratio', Sub(trackSize, Num(thumbExt')))
        contentPos == Mul(Neg(_ratio'), Sub(contentSize, viewportSize))
    IN  /\ thumbPosStyle' = thumbPos
        /\ thumbOffset' = Honoured(thumbPos, thumbOffset)
        /\ contentPosStyle' = [i \in 1 .. NumContent |->
                                  IF i = 1 THEN contentPos ELSE contentPosStyle[i]]
        /\ ariaValueNow' = Round(Mul(_ratio', Num(100)))

\* ------------------------------------------------- position application
\* reads this._ratio as just assigned and the thumb box as just laid out
applyPosition ==
    LET thumbPos == Mul(_ratio', Sub(trackSize, Num(thumbExt')))
        contentPos == Mul(Neg(_ratio'), Sub(contentSize, viewportSize))
    IN  /\ thumbPosStyle' = thumbPos
        /\ thumbOffset' = Honoured(thumbPos, thumbOffset)
        /\ contentPosStyle' = [i \in 1 .. NumContent |-> contentPos]
        /\ ariaValueNow' = Round(Mul(_ratio', Num(100)))

\* clamp with the upper bound forgotten
clampBelowOnly(r) == IF Lt(r, Num(0)) THEN Num(0) ELSE r

clamp(r) == IF Lt(r, Num(0)) THEN Num(0) ELSE IF Lt(Num(1), r) THEN Num(1) ELSE r

\* r is the value the caller has just stored in this._ratio; no caller of
\* clampAndApply sizes the thumb
clampAndApply(r) ==
    /\ UNCHANGED <<thumbExt, thumbSizeStyle, _dragStep>>
    /\ _ratio' = clamp(r)
    /\ applyPosition

\* ------------------------------------------------------------------ Init
InitListeners ==
    ThumbListeners
        \cup (IF trackClick THEN {"track.click"} ELSE {})
        \cup (IF autoResize THEN {"window.resize"} ELSE {})

Init ==
    /\ \E c \in Configs : direction = c[1] /\ trackClick = c[2] /\ autoResize = c[3]
    /\ _ratio = Num(0)
    /\ _lastPointer = 0
    /\ _isDragging = FALSE
    /\ _resizeTimer = 0
    /\ _destroyed = FALSE
    /\ listeners = InitListeners
    /\ \E g \in Geometries : trackExt = g[1] /\ viewportExt = g[2] /\ contentExt = g[3]
    /\ LET size == Mul(trackSize, Min(Div(viewportSize, contentSize), Num(1)))
       IN  /\ thumbSizeStyle = size
           /\ thumbExt = Honoured(size, 0)
    /\ _dragStep = Div(trackSize, Num(keyboardSteps))
    /\ thumbOffset = 0
    /\ thumbPosStyle = Num(0)
    /\ contentPosStyle = [i \in 1 .. NumContent |-> Num(0)]
    /\ ariaValueNow = Num(0)
    /\ pressed = {}
    /\ timers = {}
    /\ sinceResize = -1
    /\ burstFires = 0
    /\ last = [op |-> "new", arg |-> "-", ran |-> TRUE, wasDestroyed |-> FALSE,
               reads |-> TRUE, writes |-> TRUE, onScroll |-> 0, dragStart |-> 0,
               dragEnd |-> 0, removals |-> 0, clears |-> 0, cancelled |-> 0,
               prevented |-> FALSE, run |-> 0]

\* ------------------------------------------------------------ public API
scrollTo(ratio) ==
    /\ clampAndApply(ratio)
    /\ last' = Applied("scrollTo", ratio, FALSE)
    /\ UNCHANGED <<config, _lastPointer, _isDragging, _resizeTimer,
                   _destroyed, listeners, geometry,
                   host, clock>>

\* scrollToOffset aiming the offset at the viewport's start, not its centre
scrollToOffsetNoCentre(offset) ==
    LET vSize == viewportSize
        cSize == contentSize
        target == Num(offset)
    IN  /\ clampAndApply(Div(target, Sub(cSize, vSize)))
        /\ last' = Applied("scrollToOffset", offset, FALSE)
        /\ UNCHANGED <<config, _lastPointer, _isDragging, _resizeTimer,
                       _destroyed, listeners, geometry,
                       host, clock>>

scrollToOffset(offset) ==
    LET vSize == viewportSize
        cSize == contentSize
        target == Sub(Num(offset), Div(vSize, Num(2)))
    IN  /\ clampAndApply(Div(target, Sub(cSize, vSize)))
        /\ last' = Applied("scrollToOffset", offset, FALSE)
        /\ UNCHANGED <<config, _lastPointer, _isDragging, _resizeTimer,
                       _destroyed, listeners, geometry,
                       host, clock>>

\* update() taking ratio back from where the layout has the thumb
updateFromThumb ==
    /\ sizeThumb
    /\ _ratio' = clamp(Div(currentThumbPos, Sub(trackSize, Num(thumbExt'))))
    /\ applyPosition
    /\ last' = Applied("update", "-", FALSE)
    /\ UNCHANGED <<config, _lastPointer, _isDragging, _resizeTimer, _destroyed,
                   listeners, geometry, host, clock>>

update ==
    /\ sizeThumb
    /\ UNCHANGED _ratio
    /\ applyPosition
    /\ last' = Applied("update", "-", FALSE)
    /\ UNCHANGED <<config, _lastPointer, _isDragging, _resizeTimer, _destroyed,
                   listeners, geometry, host, clock>>

\* thumb.focus() moves the host's input focus, which is the host's to give
\* and take: the instance keeps no record of it
focus ==
    /\ last' = [Quiet("focus", "-") EXCEPT !.ran = TRUE]
    /\ UNCHANGED <<config, fields, listeners, geometry, thumbBox, output, host, clock>>

\* destroy() forgetting the listeners a drag in progress holds on the document
DestroyRemovesNoDrag ==
    ThumbListeners
        \cup (IF trackClick THEN {"track.click"} ELSE {})
        \cup (IF autoResize THEN {"window.resize"} ELSE {})

\* the listeners destroy() asks to be removed
DestroyRemoves ==
    ThumbListeners \cup DragListeners
        \cup (IF trackClick THEN {"track.click"} ELSE {})
        \cup (IF autoResize THEN {"window.resize"} ELSE {})

\* clearTimeout(id): a handle that is not pending is ignored
clearTimeout(id) == {t \in timers : t[1] # id}

\* destroy() leaving the debounce timer alone
destroyClearsNothing == timers

\* the timers left pending once destroy() has cleared the debounce timer
destroyClears == IF _resizeTimer # 0 THEN clearTimeout(_resizeTimer) ELSE timers

\* destroy() past its early return
destroyBody ==
    /\ _destroyed' = TRUE
    /\ listeners' = listeners \ DestroyRemoves
    /\ timers' = destroyClears
    /\ last' = [Quiet("destroy", "-") EXCEPT
                   !.ran = TRUE,
                   !.removals = Cardinality(DestroyRemoves),
                   !.clears = IF _resizeTimer # 0 THEN 1 ELSE 0,
                   !.cancelled = Cardinality(timers) - Cardinality(timers')]
    /\ UNCHANGED <<config, _ratio, _dragStep, _lastPointer, _isDragging,
                   _resizeTimer, geometry, thumbBox, output, host,
                   sinceResize, burstFires>>

\* destroy() without its early return
destroyUnguarded == destroyBody

destroy ==
    IF _destroyed
    THEN /\ last' = [Quiet("destroy", "-") EXCEPT !.ran = TRUE]
         /\ UNCHANGED <<config, fields, listeners, geometry, thumbBox, output,
                        host, clock>>
    ELSE destroyBody

\* ---------------------------------------------------------- pointer drag
handleDown(p) ==
    /\ _isDragging' = TRUE
    /\ _lastPointer' = p
    /\ listeners' = listeners \cup DragListeners
    /\ last' = [Quiet("down", "-") EXCEPT !.ran = TRUE, !.prevented = TRUE,
                                        !.dragStart = 1]
    /\ UNCHANGED <<config, _ratio, _dragStep, _resizeTimer, _destroyed, geometry,
                   thumbBox, output, clock>>

handleMove(pos) ==
    LET delta == Sub(Num(_lastPointer), Num(pos))
        newPos == Sub(currentThumbPos, delta)
    IN  /\ _lastPointer' = pos
        /\ clampAndApply(Div(newPos, Sub(trackSize, thumbSize)))
        /\ last' = Applied("move", "-", TRUE)
        /\ UNCHANGED <<config, _isDragging, _resizeTimer, _destroyed,
                       listeners, geometry, clock>>

handleUp ==
    /\ _isDragging' = FALSE
    /\ listeners' = listeners \ DragListeners
    /\ last' = [Quiet("up", "-") EXCEPT !.ran = TRUE, !.dragEnd = 1,
                                        !.removals = Cardinality(DragListeners)]
    /\ UNCHANGED <<config, _ratio, _dragStep, _lastPointer, _resizeTimer,
                   _destroyed, geometry, thumbBox, output, clock>>

\* --------------------------------------------------------------- keyboard
\* presses of the arrow key `key` in a row that this press completes: a row
\* starts with a press at the end of the range the key moves away from
KeyRun(key) ==
    LET from == IF key \in {"ArrowRight", "ArrowDown"} THEN Num(0) ELSE Num(1)
    IN  IF key \notin {"ArrowLeft", "ArrowRight", "ArrowUp", "ArrowDown"} THEN 0
        ELSE IF _ratio = from THEN 1
        ELSE IF last.op = "key" /\ last.arg = key /\ last.run > 0
             THEN (IF last.run < keyboardSteps THEN last.run + 1 ELSE last.run)
        ELSE 0

\* handleKey with Home taking one step back instead of jumping to the start
handleKeyHomeSteps(key) ==
    LET backKey == IF isHorizontal THEN "ArrowLeft" ELSE "ArrowUp"
        fwdKey == IF isHorizontal THEN "ArrowRight" ELSE "ArrowDown"
        step == Div(_dragStep, Sub(trackSize, thumbSize))
        recognised == key \in {backKey, fwdKey, "Home", "End"}
    IN  /\ IF key = backKey THEN clampAndApply(Sub(_ratio, step))
           ELSE IF key = fwdKey THEN clampAndApply(Add(_ratio, step))
           ELSE IF key = "Home" THEN clampAndApply(Sub(_ratio, step))
           ELSE IF key = "End" THEN clampAndApply(Num(1))
           ELSE UNCHANGED <<_ratio, _dragStep, thumbBox, output>>
        /\ last' = IF recognised
                   THEN [Applied("key", key, TRUE) EXCEPT !.run = KeyRun(key)]
                   ELSE [Quiet("key", key) EXCEPT !.ran = TRUE, !.reads = TRUE]
        /\ UNCHANGED <<config, _lastPointer, _isDragging, _resizeTimer,
                       _destroyed, listeners, geometry,
                       host, clock>>

\* handleKey taking the arrow keys of both axes, whatever the direction
handleKeyAnyAxis(key) ==
    LET backKey == IF key = "ArrowUp" THEN key ELSE "ArrowLeft"
        fwdKey == IF key = "ArrowDown" THEN key ELSE "ArrowRight"
        step == Div(_dragStep, Sub(trackSize, thumbSize))
        recognised == key \in {backKey, fwdKey, "Home", "End"}
    IN  /\ IF key = backKey THEN clampAndApply(Sub(_ratio, step))
           ELSE IF key = fwdKey THEN clampAndApply(Add(_ratio, step))
           ELSE IF key = "Home" THEN clampAndApply(Num(0))
           ELSE IF key = "End" THEN clampAndApply(Num(1))
           ELSE UNCHANGED <<_ratio, _dragStep, thumbBox, output>>
        /\ last' = IF recognised
                   THEN [Applied("key", key, TRUE) EXCEPT !.run = KeyRun(key)]
                   ELSE [Quiet("key", key) EXCEPT !.ran = TRUE, !.reads = TRUE]
        /\ UNCHANGED <<config, _lastPointer, _isDragging, _resizeTimer,
                       _destroyed, listeners, geometry,
                       host, clock>>

handleKey(key) ==
    LET backKey == IF isHorizontal THEN "ArrowLeft" ELSE "ArrowUp"
        fwdKey == IF isHorizontal THEN "ArrowRight" ELSE "ArrowDown"
        step == Div(_dragStep, Sub(trackSize, thumbSize))
        recognised == key \in {backKey, fwdKey, "Home", "End"}
    IN  /\ IF key = backKey THEN clampAndApply(Sub(_ratio, step))
           ELSE IF key = fwdKey THEN clampAndApply(Add(_ratio, step))
           ELSE IF key = "Home" THEN clampAndApply(Num(0))
           ELSE IF key = "End" THEN clampAndApply(Num(1))
           ELSE UNCHANGED <<_ratio, _dragStep, thumbBox, output>>
        /\ last' = IF recognised
                   THEN [Applied("key", key, TRUE) EXCEPT !.run = KeyRun(key)]
                   ELSE [Quiet("key", key) EXCEPT !.ran = TRUE, !.reads = TRUE]
        /\ UNCHANGED <<config, _lastPointer, _isDragging, _resizeTimer,
                       _destroyed, listeners, geometry,
                       host, clock>>

\* ------------------------------------------------------------ track click
\* handleTrackClick without its early return for a click on the thumb
handleTrackClickAnywhere(clickPos, onThumb) ==
    /\ IF FALSE
       THEN /\ UNCHANGED <<_ratio, _dragStep, thumbBox, output>>
            /\ last' = [Quiet("click", "thumb") EXCEPT !.ran = TRUE]
       ELSE /\ clampAndApply(Div(Num(clickPos), trackSize))
            /\ last' = Applied("click", IF onThumb THEN "thumb" ELSE "track", FALSE)
    /\ UNCHANGED <<config, _lastPointer, _isDragging, _resizeTimer,
                   _destroyed, listeners, geometry,
                   host, clock>>

handleTrackClick(clickPos, onThumb) ==
    /\ IF onThumb
       THEN /\ UNCHANGED <<_ratio, _dragStep, thumbBox, output>>
            /\ last' = [Quiet("click", "thumb") EXCEPT !.ran = TRUE]
       ELSE /\ clampAndApply(Div(Num(clickPos), trackSize))
            /\ last' = Applied("click", "track", FALSE)
    /\ UNCHANGED <<config, _lastPointer, _isDragging, _resizeTimer,
                   _destroyed, listeners, geometry,
                   host, clock>>

\* ----------------------------------------------------------------- resize
\* setTimeout hands out a handle that no pending timer has
FreshIds(pending) == {i \in TimerIds : \A t \in pending : t[1] # i}

\* handleResize scheduling without clearing the timer it scheduled before
resizeClearsNothing == timers

\* the timers left pending once handleResize has cleared the previous one
resizeClears == IF _resizeTimer # 0 THEN clearTimeout(_resizeTimer) ELSE timers

handleResize ==
    LET kept == resizeClears
    IN  /\ FreshIds(kept) # {}
        /\ LET id == CHOOSE i \in FreshIds(kept) : \A j \in FreshIds(kept) : i <= j
           IN  /\ _resizeTimer' = id
               /\ timers' = kept \cup {<<id, resizeDebounce>>}
        /\ burstFires' = IF sinceResize >= 0 /\ sinceResize < resizeDebounce
                         THEN burstFires ELSE 0
        /\ sinceResize' = 0
        /\ last' = [Quiet("resize", "-") EXCEPT
                       !.ran = TRUE,
                       !.clears = IF _resizeTimer # 0 THEN 1 ELSE 0,
                       !.cancelled = Cardinality(timers) - Cardinality(kept)]
        /\ UNCHANGED <<config, _ratio, _dragStep, _lastPointer, _isDragging,
                       _destroyed, listeners, geometry, thumbBox, output, host>>

\* ticks since the last notification, counted up to the debounce delay
Elapsed == IF sinceResize >= 0 /\ sinceResize < resizeDebounce
           THEN sinceResize + 1 ELSE sinceResize

\* the callback handleResize hands to setTimeout, run at the instant the
\* delay of a pending timer elapses
resizeTimeout ==
    /\ \E t \in timers : t[2] = 1
    /\ timers' = {<<t[1], t[2] - 1>> : t \in {u \in timers : u[2] > 1}}
    /\ sinceResize' = Elapsed
    /\ burstFires' = burstFires + Cardinality({t \in timers : t[2] = 1})
    /\ sizeThumb
    /\ UNCHANGED _ratio
    /\ applyPosition
    /\ last' = Applied("timeout", "-", FALSE)
    /\ UNCHANGED <<config, _lastPointer, _isDragging, _resizeTimer, _destroyed,
                   listeners, geometry, host>>

\* ------------------------------------------------------------ host events
\* an event reaches a handler only while the handler is registered for it
DownType(kind) == IF kind = "mouse" THEN "thumb.mousedown" ELSE "thumb.touchstart"

MoveType(kind) == IF kind = "mouse" THEN "document.mousemove" ELSE "document.touchmove"

UpType(kind) == IF kind = "mouse" THEN "document.mouseup" ELSE "document.touchend"

Unheard ==
    /\ last' = Quiet("none", "-")
    /\ UNCHANGED <<config, fields, listeners, geometry, thumbBox, output, clock>>

\* a pointer goes down on the thumb
PointerDown(kind, p) ==
    /\ kind \notin pressed
    /\ IF DownType(kind) \in listeners
       THEN /\ handleDown(p)
            /\ pressed' = pressed \cup {kind}
       ELSE /\ Unheard
            /\ UNCHANGED pressed

\* the mouse moves, or a finger that is down moves
PointerMove(kind, p) ==
    /\ kind = "touch" => kind \in pressed
    /\ UNCHANGED pressed
    /\ IF MoveType(kind) \in listeners
       THEN handleMove(p)
       ELSE Unheard

\* a pointer whose press was handled is released
PointerUp(kind) ==
    /\ kind \in pressed
    /\ pressed' = pressed \ {kind}
    /\ IF UpType(kind) \in listeners
       THEN handleUp
       ELSE Unheard

\* a key goes down while the host has the focus on the thumb
KeyDown(key) ==
    /\ IF "thumb.keydown" \in listeners
       THEN handleKey(key)
       ELSE /\ Unheard
            /\ UNCHANGED pressed

\* a click inside the track, on the thumb or beside it
TrackClick(clickPos, onThumb) ==
    IF "track.click" \in listeners
    THEN handleTrackClick(clickPos, onThumb)
    ELSE /\ Unheard
         /\ UNCHANGED pressed

WindowResize ==
    IF "window.resize" \in listeners
    THEN handleResize
    ELSE /\ Unheard
         /\ UNCHANGED pressed

\* the host lays the page out anew: the extents of track, viewport and
\* content change; the thumb keeps the size and offset its styles give it
Layout(g) ==
    /\ g # geometry
    /\ trackExt' = g[1]
    /\ viewportExt' = g[2]
    /\ contentExt' = g[3]
    /\ last' = Quiet("none", "-")
    /\ UNCHANGED <<config, fields, listeners, thumbBox, output, host, clock>>

\* one tick passes and no timer comes due
Tick ==
    /\ \A t \in timers : t[2] > 1
    /\ timers # {} \/ Elapsed # sinceResize
    /\ timers' = {<<t[1], t[2] - 1>> : t \in timers}
    /\ sinceResize' = Elapsed
    /\ last' = Quiet("none", "-")
    /\ UNCHANGED <<config, fields, listeners, geometry, thumbBox, output, host,
                   burstFires>>

Next ==
    \/ \E r \in ScrollInputs : scrollTo(r)
    \/ \E x \in Offsets : scrollToOffset(x)
    \/ update
    \/ focus
    \/ destroy
    \/ \E kind \in PointerKinds, p \in Pointers : PointerDown(kind, p)
    \/ \E kind \in PointerKinds, p \in Pointers : PointerMove(kind, p)
    \/ \E kind \in PointerKinds : PointerUp(kind)
    \/ \E key \in Keys : KeyDown(key)
    \/ \E p \in ClickPositions, onThumb \in BOOLEAN : TrackClick(p, onThumb)
    \/ WindowResize
    \/ resizeTimeout
    \/ \E g \in Geometries : Layout(g)
    \/ Tick

Spec == Init /\ [][Next]_vars

\* ----------------------------------------------------------------- claims
travel == trackExt - thumbExt

overflow == contentExt - viewportExt

\* the latest step went through applyPosition
AppliedStep == last.onScroll = 1

\* C1: after any sequence of operations the ratio accessor returns a number
\* r with 0 <= r <= 1, never NaN, whatever the inputs and the geometry.
RatioInUnitInterval == Le(Num(0), _ratio) /\ Le(_ratio, Num(1))

\* C2: right after scrollTo(r) returns, ratio is r when 0 <= r <= 1, 0 when
\* r < 0 and 1 when r > 1, from every reachable state.
ScrollToClamps ==
    last.op = "scrollTo" =>
        LET r == last.arg
        IN  /\ (Le(Num(0), r) /\ Le(r, Num(1))) => _ratio = r
            /\ Lt(r, Num(0)) => _ratio = Num(0)
            /\ Lt(Num(1), r) => _ratio = Num(1)

\* scrollTo was called on a destroyed instance with an input above 1 and
\* left ratio at 1
ScrollToClampsWitness ==
    /\ last.op = "scrollTo"
    /\ last.arg = Num(2)
    /\ last.wasDestroyed
    /\ _ratio = Num(1)

\* C3: isDragging is true exactly while a handled press on the thumb has not
\* been released yet, in every reachable state.
DraggingIffPressed == _isDragging <=> (pressed # {})

\* C4: once destroy() has returned, no operation reads geometry, writes a
\* style or the accessibility attribute, or calls an observer.
DestroyedIsInert ==
    last.wasDestroyed =>
        /\ ~last.reads
        /\ ~last.writes
        /\ last.onScroll = 0
        /\ last.dragStart = 0
        /\ last.dragEnd = 0

\* C5: the debounced re-measurement never runs on a destroyed instance,
\* whether it was pending when destroy() was called or notified later.
NoRemeasureAfterDestroy == _destroyed => last.op # "timeout"

\* destroy() cancelled a pending re-measurement, its delay has since elapsed
\* and no re-measurement ran
NoRemeasureAfterDestroyWitness ==
    /\ _destroyed
    /\ sinceResize = resizeDebounce
    /\ burstFires = 0

\* C6: after destroy() returns no listener of the instance is registered,
\* whether it was idle or dragging and whatever its options.
NoListenersAfterDestroy == _destroyed => listeners = {}

\* destroy() was called in the middle of a drag
NoListenersAfterDestroyWitness ==
    /\ last.op = "destroy"
    /\ ~last.wasDestroyed
    /\ _isDragging
    /\ trackClick
    /\ listeners = {}

\* C7: a second or later destroy() changes nothing and makes no
\* removeEventListener or clearTimeout call.
DestroyIdempotent ==
    [][(_destroyed /\ last'.op = "destroy") =>
          /\ UNCHANGED <<config, fields, listeners, geometry, thumbBox, output,
                         host, clock>>
          /\ last'.removals = 0
          /\ last'.clears = 0]_vars

\* destroy() was called on an instance that was destroyed while its debounce
\* timer handle was set
DestroyIdempotentWitness ==
    /\ last.op = "destroy"
    /\ last.wasDestroyed
    /\ _resizeTimer # 0

\* C8: on a live instance at most one re-measurement is pending; while the
\* delay of the latest notification runs none has fired since the burst began
\* and the pending one is due when that delay ends; a re-measurement fires
\* exactly when the delay of the latest notification ends, and once it has
\* ended exactly one has fired for the burst.
TrailingDebounce ==
    /\ Cardinality(timers) <= 1
    /\ burstFires <= 1
    /\ last.op = "timeout" => sinceResize = resizeDebounce
    /\ (~_destroyed /\ sinceResize >= 0 /\ sinceResize < resizeDebounce) =>
          /\ burstFires = 0
          /\ timers = {<<_resizeTimer, resizeDebounce - sinceResize>>}
    /\ (~_destroyed /\ sinceResize = resizeDebounce) =>
          /\ burstFires = 1
          /\ timers = {}

\* a notification arrived while the timer of the one before was pending,
\* and cancelled it
TrailingDebounceWitness ==
    /\ last.op = "resize"
    /\ last.cancelled = 1
    /\ Cardinality(timers) = 1

\* C9: with travel <= 0 neither a pointer move during a drag nor an arrow
\* key changes ratio.
DegenerateTravelNoOp ==
    [][(/\ travel <= 0
        /\ \/ last'.op = "move"
           \/ last'.op = "key" /\ last'.writes /\ last'.arg \notin {"Home", "End"})
          => _ratio' = _ratio]_vars

\* C10: with viewport extent >= content extent every operation that applies
\* leaves the position written to every content element at 0.
DegenerateOverflowPinsContent ==
    (AppliedStep /\ overflow <= 0) =>
        \A i \in 1 .. NumContent : contentPosStyle[i] = Num(0)

\* clamp(r, 0, 1) as the claims write it
Clamp01(r) == IF Lt(r, Num(0)) THEN Num(0) ELSE IF Lt(Num(1), r) THEN Num(1) ELSE r

\* C11: with travel > 0 a pointer move from the last recorded coordinate
\* pLast to p sets ratio to clamp((thumb position - (pLast - p)) / travel) and
\* records p; hence a press at ratio r0 followed by a move whose result is
\* not clamped leaves ratio at r0 plus the pointer displacement over travel.
DragDeltaFormula ==
    [][(last'.op = "move" /\ travel > 0) =>
          LET p == _lastPointer'
              d == p - _lastPointer
              viaThumb == Div(Num(thumbOffset + d), Num(travel))
              viaRatio == Add(_ratio, Div(Num(d), Num(travel)))
          IN  /\ _ratio' = Clamp01(viaThumb)
              /\ (/\ last.op = "down"
                  /\ Le(Num(0), viaRatio)
                  /\ Le(viaRatio, Num(1))) => _ratio' = viaRatio]_vars

\* the axis's arrow keys
FwdKey == IF isHorizontal THEN "ArrowRight" ELSE "ArrowDown"

BackKey == IF isHorizontal THEN "ArrowLeft" ELSE "ArrowUp"

\* C12: the step size is track extent / keyboardSteps as of the most recent
\* thumb sizing, and with travel > 0 a forward-key press sets ratio to
\* clamp(r + stepSize / travel), a back-key press to clamp(r - stepSize /
\* travel), whatever the ratio r before the press.
KeyboardStep ==
    [][/\ last'.op \in {"update", "timeout"} =>
             _dragStep' = Div(Num(trackExt'), Num(keyboardSteps))
       /\ last'.op \notin {"update", "timeout"} => _dragStep' = _dragStep
       /\ (last'.op = "key" /\ travel > 0) =>
             LET step == Div(_dragStep, Num(travel))
             IN  /\ last'.arg = FwdKey => _ratio' = Clamp01(Add(_ratio, step))
                 /\ last'.arg = BackKey => _ratio' = Clamp01(Sub(_ratio, step))]_vars

\* a back-key press took one step of half the range off a ratio of 3/4
KeyboardStepWitness ==
    /\ last.op = "key"
    /\ last.arg = "ArrowLeft"
    /\ travel = 2
    /\ _dragStep = Num(1)
    /\ _ratio = Frac(1, 4)

\* C13: with travel > 0, presses of an arrow key in a row that start at the
\* end of the range the key moves away from first reach the other end with
\* press number keyboardSteps.
StepsAcrossFullRange ==
    (last.op = "key" /\ last.run > 0 /\ travel > 0) =>
        LET far == IF last.arg = FwdKey THEN Num(1) ELSE Num(0)
        IN  (_ratio = far) <=> (last.run >= keyboardSteps)

\* C14: a handled Home key-down leaves ratio at exactly 0 and a handled End
\* key-down at exactly 1, in every geometry and from every ratio.
HomeEndAbsolute ==
    last.op = "key" =>
        /\ last.arg = "Home" => _ratio = Num(0)
        /\ last.arg = "End" => _ratio = Num(1)

\* End was pressed while the thumb had no room to travel
HomeEndAbsoluteWitness ==
    /\ last.op = "key"
    /\ last.arg = "End"
    /\ travel <= 0
    /\ _ratio = Num(1)

\* C15: a key-down for a key that is none of the axis's back key, its
\* forward key, Home and End changes no field, listener, style, attribute or
\* timer, calls no observer and does not prevent the default.
UnrecognisedKeyIgnored ==
    [][(last'.op = "key" /\ last'.arg \notin {BackKey, FwdKey, "Home", "End"}) =>
          /\ UNCHANGED <<fields, listeners, thumbBox, output, host, clock>>
          /\ ~last'.writes
          /\ last'.onScroll = 0
          /\ last'.dragStart = 0
          /\ last'.dragEnd = 0
          /\ ~last'.prevented]_vars

\* an arrow key of the other axis went down on a horizontal scrollbar in the
\* middle of a drag
UnrecognisedKeyIgnoredWitness ==
    /\ last.op = "key"
    /\ last.arg = "ArrowDown"
    /\ isHorizontal
    /\ _isDragging

\* C16: a track click whose target is the thumb changes neither ratio nor
\* any written position and calls no observer; no track click fires
\* drag-start or drag-end or changes isDragging.
ThumbClickIgnored ==
    [][last'.op = "click" =>
          /\ last'.arg = "thumb" =>
                /\ _ratio' = _ratio
                /\ UNCHANGED <<thumbBox, output>>
                /\ ~last'.writes
                /\ last'.onScroll = 0
          /\ last'.dragStart = 0
          /\ last'.dragEnd = 0
          /\ _isDragging' = _isDragging]_vars

\* the thumb was clicked while ratio was away from where that click points
ThumbClickIgnoredWitness ==
    /\ last.op = "click"
    /\ last.arg = "thumb"
    /\ _ratio = Num(1)
    /\ thumbOffset = 2

\* C17: with overflow > 0 and 0 <= x <= content extent, scrollToOffset(x)
\* leaves the content at a position c that puts pixel x at viewport
\* coordinate x + c, no further than half a viewport extent from the
\* viewport's centre, and exactly at the centre when the ratio
\* (x - viewportExtent / 2) / overflow needs no clamping.
OffsetRoundTrip ==
    (/\ last.op = "scrollToOffset"
     /\ overflow > 0
     /\ last.arg >= 0
     /\ last.arg <= contentExt) =>
        LET x == Num(last.arg)
            half == Frac(viewportExt, 2)
            at == Add(x, contentPosStyle[1])
            dist == IF Lt(at, half) THEN Sub(half, at) ELSE Sub(at, half)
            raw == Div(Sub(x, half), Num(overflow))
        IN  /\ Le(dist, half)
            /\ (Le(Num(0), raw) /\ Le(raw, Num(1))) => dist = Num(0)

\* scrollToOffset centred a pixel from inside the range that needs no clamping
OffsetRoundTripWitness ==
    /\ last.op = "scrollToOffset"
    /\ last.arg = 2
    /\ overflow = 2
    /\ _ratio = Frac(1, 2)
    /\ contentPosStyle[1] = Num(-1)

\* C18: update() and the debounced re-measurement leave ratio as it was,
\* whatever the old and the new geometry.
RemeasurePreservesRatio ==
    [][last'.op \in {"update", "timeout"} => _ratio' = _ratio]_vars

\* update() ran after the layout took the thumb's room to travel away: ratio
\* is kept in the middle while the thumb is written to the start
RemeasurePreservesRatioWitness ==
    /\ last.op = "update"
    /\ _ratio = Frac(1, 2)
    /\ travel = 0
    /\ thumbPosStyle = Num(0)

\* C19: when an operation that applies completes, the thumb's written
\* position is ratio x travel, every content element's written position is
\* -(ratio x overflow), the accessibility value is round(ratio x 100) and
\* the scroll observer was called once, for the geometry of that operation.
OutputConsistent ==
    (\/ last.op \in {"scrollTo", "scrollToOffset", "update", "move", "timeout"}
     \/ last.op = "key" /\ last.arg \in {BackKey, FwdKey, "Home", "End"}
     \/ last.op = "click" /\ last.arg = "track") =>
        /\ thumbPosStyle = Mul(_ratio, Num(travel))
        /\ \A i \in 1 .. NumContent :
              contentPosStyle[i] = Neg(Mul(_ratio, Num(overflow)))
        /\ ariaValueNow = Round(Mul(_ratio, Num(100)))
        /\ last.onScroll = 1

\* a drag move applied a ratio in the middle of the range to the thumb and
\* to every content element
OutputConsistentWitness ==
    /\ last.op = "move"
    /\ _ratio = Frac(1, 2)
    /\ thumbPosStyle = Num(1)
    /\ \A i \in 1 .. NumContent : contentPosStyle[i] = Num(-1)
    /\ ariaValueNow = Num(50)

\* C20: the document-level move and release listeners are registered
\* exactly while isDragging is true, in every reachable state.
DragListenersIffDragging ==
    /\ _isDragging => DragListeners \subseteq listeners
    /\ ~_isDragging => DragListeners \cap listeners = {}

\* C21: drag notifications are paired: drag-start fires only while no drag is
\* on and leaves isDragging true, drag-end fires only while a drag is on and
\* leaves isDragging false, and isDragging changes with no other step; so
\* drag-starts minus drag-ends is 1 while isDragging is true and 0 otherwise,
\* and the two alternate, over any sequence of events.
DragNotificationsPaired ==
    [][/\ last'.dragStart + last'.dragEnd <= 1
       /\ last'.dragStart = 1 => ~_isDragging /\ _isDragging'
       /\ last'.dragEnd = 1 => _isDragging /\ ~_isDragging'
       /\ (last'.dragStart = 0 /\ last'.dragEnd = 0) =>
             _isDragging' = _isDragging]_vars

====
